---- MODULE Spec2Model ----
(***************************************************************************)
(* Model of the AWS billing monitor: the shared configuration singleton    *)
(* (config.py), the Cost Explorer adapter and report assembly              *)
(* (aws_billing.py), the console renderer and run workflow                 *)
(* (billing_manager.py).                                                   *)
(*                                                                         *)
(* Money is held in thousandths of a currency unit (0.01 is 10, 5000.00 is *)
(* 5000000), dates are day numbers, and a datetime is a day number with a  *)
(* time of day.  An amount is a Python float: a binary floating-point      *)
(* number, here with MantissaBits significant bits instead of 53, so every *)
(* addition rounds its exact result to the nearest representable value.    *)
(***************************************************************************)
EXTENDS Integers, Sequences, FiniteSets, TLC

(***************************************************************************)
(* Bounds of the model.                                                    *)
(***************************************************************************)
MaxPeriodCount == 7

MaxBuckets == 2
MaxGroups == 3

\* significant bits of a float (all money figures of the model, 490.87 and
\* 5000.00 among them, are representable with 18)
MantissaBits == 18

\* webhook deliveries made one after the other by a caller of the
\* integration on its own
MaxPosts == 4

\* Cost Explorer requests after which a caller of the adapter on its own
\* starts no further query
MaxApiCalls == 2

\* period_count values explored: below 1, and 1..MaxPeriodCount
PeriodCounts == (0 - 1)..MaxPeriodCount

\* 'd' and 'm' are the declared literals; 'w' stands for any other value
\* assigned to the field after construction (assignment is not validated)
PeriodTypes == {"d", "m", "w"}

\* datetime.now(): a day and a time of day (0 is midnight exactly)
NowValues == [day : {1000, 1001}, tod : {0, 1}]

\* dimension keys and amounts of the groups in a grouped response
\* (5 is 0.005, half the default threshold; 120000 is 120.00)
Keys == {"EC2", "S3"}
Amounts == {5, 120000}
Group == [key : Keys, amount : Amounts]

\* amounts of the groups of a response whose sums get rounded: 0.005 and
\* 300.00 (300.005 needs more than MantissaBits bits)
RoundedAmounts == {5, 300000}
RoundedGroup == [key : Keys, amount : RoundedAmounts]

\* sequences over S of length at most n
SeqUpTo(S, n) == UNION {[1..m -> S] : m \in 0..n}

\* the sum of the first i entries of a sequence of numbers
PrefixSum(l, i) ==
    LET Step[j \in 0..i] == IF j = 0 THEN 0 ELSE Step[j - 1] + l[j]
    IN Step[i]

\* a flat sequence of groups cut into consecutive time buckets of the
\* lengths given
Split(groups, lengths) ==
    [i \in 1..Len(lengths) |->
        SubSeq(groups, PrefixSum(lengths, i - 1) + 1, PrefixSum(lengths, i))]

\* response['ResultsByTime'] of a grouped query: one sequence of groups
\* per time bucket; at most MaxBuckets buckets (some may be empty) holding
\* at most MaxGroups groups between them
ResponsesOver(G) ==
    UNION {UNION {{Split(f, l) :
                     l \in {x \in [1..b -> 0..Len(f)] : PrefixSum(x, b) = Len(f)}} :
                  b \in 0..MaxBuckets} :
           f \in SeqUpTo(G, MaxGroups)}

GroupedResponses == ResponsesOver(Group)

\* the period slot before any call of get_billing_period
NoPeriod ==
    [status |-> "none", period_type |-> "m", period_count |-> 1,
     start_date |-> [day |-> 0, tod |-> 0], end_date |-> [day |-> 0, tod |-> 0]]

\* the dict {} of Python
EmptyDict == <<>>

\* the slot of a stand-alone query before any call
NoCosts == [method |-> "none", failed |-> FALSE, result |-> EmptyDict]

\* billing_manager.aws_analyzer before BillingManager() has run
NoAnalyzer ==
    [constructed |-> FALSE,
     start_date |-> [day |-> 0, tod |-> 0], end_date |-> [day |-> 0, tod |-> 0]]

\* nothing printed by _display_report_console yet
NoConsole == [printed |-> FALSE]

\* no chat message formatted yet
NoChat == [formatted |-> FALSE]

\* no send_message or send_alert call made yet
NoDelivery == [method |-> "none", returned |-> FALSE, raised |-> FALSE, seq |-> 0]

\* no burn-rate analysis made yet
NoProjection == [site |-> "none"]

VARIABLES
    config,     \* the shared Config() singleton (config.py:70)
    now,        \* what datetime.now() returns during this run
    period,     \* the last config.get_billing_period() call: the kind and
                \* count it read and what it returned or raised
    acct,       \* what Cost Explorer holds: the response each query gets
                \* when its call succeeds
    costs,      \* the last stand-alone aggregation query: the method, whether
                \* its API call failed, and the mapping it returned
    env,        \* the process environment (.env): whether both AWS keys
                \* and the Slack webhook URL are set
    pc,         \* position of main() of billing_manager.py
    analyzer,   \* billing_manager.aws_analyzer: its start_date and end_date
    slack_integration,  \* whether billing_manager.slack_integration is set
    api_log,    \* outcome (TRUE: succeeded) of each get_cost_and_usage call
                \* made by the last generate_billing_report or by the last
                \* stand-alone query, in call order
    api_calls,  \* number of get_cost_and_usage requests issued so far
    report,     \* the report generate_and_display_report holds
    console,    \* what _display_report_console printed
    chat,       \* what format_billing_message produced
    posts,      \* HTTP POSTs to the webhook: the outcome of each
    delivery,   \* the last send_message or send_alert call: the method, what
                \* it returned, whether it raised, and its number
    projection, \* the last burn-rate analysis of a script
                \* (example_credit_analysis or project_credit_exhaustion)
    result,     \* what run_billing_analysis returned
    exit_code,  \* exit status of the process (-1 while it runs)
    message     \* the closing line main() printed

cfgVars == <<config, now, period, acct, costs>>
runVars == <<env, pc, analyzer, slack_integration, api_log, api_calls, report,
             console, chat, posts, delivery, projection, result, exit_code,
             message>>
vars == <<config, now, period, acct, costs, env, pc, analyzer,
          slack_integration, api_log, api_calls, report, console, chat, posts,
          delivery, projection, result, exit_code, message>>

\* what a stand-alone query of the adapter leaves alone
queryFrame == <<config, now, period, acct, env, pc, analyzer,
               slack_integration, report, console, chat, posts, delivery,
               projection, result, exit_code, message>>

\* the run variables while main() of billing_manager.py has not run
RunIdle ==
    /\ pc = "idle"
    /\ analyzer = NoAnalyzer
    /\ slack_integration = FALSE
    /\ api_log = <<>>
    /\ api_calls = 0
    /\ report = EmptyDict
    /\ console = NoConsole
    /\ chat = NoChat
    /\ posts = <<>>
    /\ delivery = NoDelivery
    /\ projection = NoProjection
    /\ result = EmptyDict
    /\ exit_code = 0 - 1
    /\ message = "none"

(***************************************************************************)
(* config.py                                                               *)
(***************************************************************************)

\* BillingConfig() as declared: period_type 'm', period_count 1,
\* min_cost_threshold 0.01; no total_credits and no credit_expiration field.
DefaultConfig ==
    [period_type |-> "m",
     period_count |-> 1,
     currency |-> "USD",
     min_cost_threshold |-> 10,
     slack_enabled |-> TRUE,
     has_total_credits |-> FALSE,
     total_credits |-> 0,
     has_credit_expiration |-> FALSE,
     credit_expiration |-> "none"]

\* datetime.now().replace(hour=0, minute=0, second=0, microsecond=0)
Midnight(dt) == [day |-> dt.day, tod |-> 0]

\* datetime - timedelta(days=n)
MinusDays(dt, n) == [day |-> dt.day - n, tod |-> dt.tod]

\* a mutated month branch: one period is taken as a single day
GetBillingPeriodMonthIsDay(cfg, dt) ==
    LET end_date == Midnight(dt) IN
    IF cfg.period_type \in {"d", "m"}
    THEN [status |-> "ok",
          period_type |-> cfg.period_type, period_count |-> cfg.period_count,
          start_date |-> MinusDays(end_date, cfg.period_count),
          end_date |-> end_date]
    ELSE [status |-> "ValueError",
          period_type |-> cfg.period_type, period_count |-> cfg.period_count,
          start_date |-> end_date, end_date |-> end_date]

\* Config.get_billing_period
GetBillingPeriod(cfg, dt) ==
    LET end_date == Midnight(dt) IN
    IF cfg.period_type = "d"
    THEN [status |-> "ok",
          period_type |-> cfg.period_type, period_count |-> cfg.period_count,
          start_date |-> MinusDays(end_date, cfg.period_count),
          end_date |-> end_date]
    ELSE IF cfg.period_type = "m"
    THEN [status |-> "ok",
          period_type |-> cfg.period_type, period_count |-> cfg.period_count,
          start_date |-> MinusDays(end_date, cfg.period_count * 30),
          end_date |-> end_date]
    ELSE [status |-> "ValueError",
          period_type |-> cfg.period_type, period_count |-> cfg.period_count,
          start_date |-> end_date, end_date |-> end_date]

\* timedelta.days of (b - a) for two midnights
DaysBetween(a, b) == b.day - a.day


(***************************************************************************)
(* aws_billing.py: the aggregating queries                                 *)
(***************************************************************************)

\* 2 to the power n
Pow2(n) == LET P[i \in 0..n] == IF i = 0 THEN 1 ELSE 2 * P[i - 1] IN P[n]

\* the least number that needs more than MantissaBits bits
FloatLimit == Pow2(MantissaBits)

\* the units in the last place of the floats from FloatLimit upwards
Ulps == {Pow2(k) : k \in 1..(30 - MantissaBits)}

\* the float nearest to the real number x >= 0: x itself when it fits in
\* MantissaBits bits, else the nearest multiple of its unit in the last
\* place, a tie going to the even mantissa
RoundToFloat(x) ==
    IF x < FloatLimit THEN x
    ELSE LET ulp == CHOOSE u \in Ulps : x < FloatLimit * u /\ FloatLimit * u <= 2 * x
             q == x \div ulp
             r == x % ulp
         IN IF 2 * r < ulp THEN q * ulp
            ELSE IF 2 * r > ulp THEN (q + 1) * ulp
            ELSE IF q % 2 = 0 THEN q * ulp
            ELSE (q + 1) * ulp

\* a + b of two floats (also the += of the accumulation loops)
FAdd(a, b) ==
    IF a + b < 0 THEN 0 - RoundToFloat(0 - (a + b)) ELSE RoundToFloat(a + b)

\* an account with one month of usage and credits
DefaultAcct ==
    [services |-> << << [key |-> "EC2", amount |-> 120000],
                        [key |-> "S3", amount |-> 5] >> >>,
     usage_types |-> << << [key |-> "EC2", amount |-> 120000] >> >>,
     daily |-> << [start |-> 998, amount |-> 120000, unit |-> "USD"],
                  [start |-> 999, amount |-> 5, unit |-> "USD"] >>,
     record_types |-> << << [key |-> "Usage", amount |-> 200000],
                            [key |-> "Credit", amount |-> 0 - 150000] >> >>,
     lifetime |-> << << [key |-> "Credit", amount |-> 0 - 4600000] >> >>,
     totals |-> << 120005 >>]

\* a mutated accumulation: the amount replaces what the key held
AccumulateGroupsOverwrite(groups, acc) ==
    LET Step[i \in 0..Len(groups)] ==
            IF i = 0 THEN acc
            ELSE LET g == groups[i]
                     prev == Step[i - 1]
                 IN [k \in (DOMAIN prev) \cup {g.key} |->
                        IF k = g.key THEN g.amount ELSE prev[k]]
    IN Step[Len(groups)]

\* for group in result['Groups']: the key is entered with 0.0 when it is
\* new, then the amount is added to it
AccumulateGroups(groups, acc) ==
    LET Step[i \in 0..Len(groups)] ==
            IF i = 0 THEN acc
            ELSE LET g == groups[i]
                     prev == Step[i - 1]
                     entered == [k \in (DOMAIN prev) \cup {g.key} |->
                                    IF k \in DOMAIN prev THEN prev[k] ELSE 0]
                 IN [entered EXCEPT ![g.key] = FAdd(@, g.amount)]
    IN Step[Len(groups)]

\* for result in response['ResultsByTime']: accumulate every bucket
AccumulateResults(results) ==
    LET Step[i \in 0..Len(results)] ==
            IF i = 0 THEN EmptyDict
            ELSE AccumulateGroups(results[i], Step[i - 1])
    IN Step[Len(results)]

\* a mutated filter: an amount equal to the threshold is dropped
FilterCostsStrict(service_costs, threshold) ==
    [k \in {x \in DOMAIN service_costs : service_costs[x] > threshold} |->
        service_costs[k]]

\* {service: cost for service, cost in service_costs.items()
\*  if cost >= config.billing.min_cost_threshold}
FilterCosts(service_costs, threshold) ==
    [k \in {x \in DOMAIN service_costs : service_costs[x] >= threshold} |->
        service_costs[k]]

\* AWSBillingAnalyzer.get_cost_by_service; ok is whether the Cost Explorer
\* call and the reading of its response went through
GetCostByService(ok, response, cfg) ==
    IF ok
    THEN FilterCosts(AccumulateResults(response), cfg.min_cost_threshold)
    ELSE EmptyDict

\* AWSBillingAnalyzer.get_cost_by_usage_type
GetCostByUsageType(ok, response, cfg) ==
    IF ok
    THEN FilterCosts(AccumulateResults(response), cfg.min_cost_threshold)
    ELSE EmptyDict


(***************************************************************************)
(* aws_billing.py: the credit queries and the report                       *)
(***************************************************************************)

\* abs(x)
Abs(x) == IF x < 0 THEN 0 - x ELSE x

\* max(0.0, x)
Max0(x) == IF x > 0 THEN x ELSE 0

\* the loops of get_credits, get_usage_cost and get_credits_used_lifetime
\* over response['ResultsByTime'] and result.get('Groups', []): add up the
\* amounts of the groups whose key is exactly record_type, as they are or
\* (absolute) as abs(cost)
SumRecordType(results, record_type, absolute) ==
    LET Inner(groups, acc) ==
            LET Step[i \in 0..Len(groups)] ==
                    IF i = 0 THEN acc
                    ELSE IF groups[i].key = record_type
                         THEN FAdd(Step[i - 1],
                                   IF absolute THEN Abs(groups[i].amount)
                                   ELSE groups[i].amount)
                         ELSE Step[i - 1]
            IN Step[Len(groups)]
        Outer[i \in 0..Len(results)] ==
            IF i = 0 THEN 0 ELSE Inner(results[i], Outer[i - 1])
    IN Outer[Len(results)]

\* AWSBillingAnalyzer.get_daily_costs
GetDailyCosts(ok, results) ==
    IF ok
    THEN [i \in 1..Len(results) |->
            [date |-> results[i].start, cost |-> results[i].amount,
             unit |-> results[i].unit]]
    ELSE <<>>

\* AWSBillingAnalyzer.get_total_cost: the total of
\* response['ResultsByTime'][0]; the IndexError of an empty list is caught
\* like a failed request
GetTotalCost(ok, totals) ==
    IF ok /\ Len(totals) > 0 THEN totals[1] ELSE 0

\* AWSBillingAnalyzer.get_credits
GetCredits(ok, response) ==
    IF ok THEN SumRecordType(response, "Credit", FALSE) ELSE 0

\* AWSBillingAnalyzer.get_usage_cost
GetUsageCost(ok, response) ==
    IF ok THEN SumRecordType(response, "Usage", FALSE) ELSE 0

\* AWSBillingAnalyzer.get_credits_used_lifetime
GetCreditsUsedLifetime(ok, response) ==
    IF ok THEN SumRecordType(response, "Credit", TRUE) ELSE 0

\* a mutated get_remaining_credits: nothing is left when the lifetime
\* query failed
GetRemainingCreditsZeroOnFailure(cfg, ok, response) ==
    IF ~cfg.has_total_credits
    THEN [raised |-> TRUE, value |-> 0]
    ELSE [raised |-> FALSE,
          value |-> IF ok
                    THEN Max0(FAdd(cfg.total_credits,
                                   0 - GetCreditsUsedLifetime(ok, response)))
                    ELSE 0]

\* AWSBillingAnalyzer.get_remaining_credits: reading config.billing.
\* total_credits raises AttributeError when the config has no such
\* attribute, before any request is made
GetRemainingCredits(cfg, ok, response) ==
    IF ~cfg.has_total_credits
    THEN [raised |-> TRUE, value |-> 0]
    ELSE [raised |-> FALSE,
          value |-> Max0(FAdd(cfg.total_credits,
                               0 - GetCreditsUsedLifetime(ok, response)))]

\* a mutated get_net_cost: the sum is floored at zero before it is returned
GetNetCostFloored(ok_usage, ok_credits, response) ==
    Max0(FAdd(GetUsageCost(ok_usage, response), GetCredits(ok_credits, response)))

\* AWSBillingAnalyzer.get_net_cost: its own usage and credits queries
GetNetCost(ok_usage, ok_credits, response) ==
    FAdd(GetUsageCost(ok_usage, response), GetCredits(ok_credits, response))

\* datetime.strftime('%Y-%m-%d'): the day, without the time of day
FormatDate(dt) == dt.day

\* datetime.isoformat(): the day and the time of day
IsoFormat(dt) == <<dt.day, dt.tod>>

\* a Python dict display {k1: v1, k2: v2, ...}: when a key occurs more than
\* once the last value given for it is the one kept
DictLiteral(items) ==
    [k \in {items[i][1] : i \in DOMAIN items} |->
        items[CHOOSE i \in DOMAIN items :
                /\ items[i][1] = k
                /\ \A j \in DOMAIN items : items[j][1] = k => j <= i][2]]

\* the value of the report's 'credits' key is a dict in one place of the
\* display and a float in another: both carry their Python type
PyDict(d) == [type |-> "dict"] @@ d
PyFloat(x) == [type |-> "float", value |-> x]

\* AWSBillingAnalyzer.generate_billing_report. ok[i] is whether the i-th
\* Cost Explorer call succeeds: 1 get_usage_cost, 2 get_credits, 3 and 4
\* inside get_net_cost, 5 get_credits_used_lifetime, 6 inside
\* get_remaining_credits, 7 get_cost_by_service, 8 get_cost_by_usage_type,
\* 9 get_daily_costs. An AttributeError on config.billing.total_credits
\* (after 4 calls) or config.billing.credit_expiration (after 6) ends it.
GenerateBillingReport(cfg, an, dt, ok, ac) ==
    LET usage_cost == GetUsageCost(ok[1], ac.record_types)
        credits_applied == GetCredits(ok[2], ac.record_types)
        net_cost == GetNetCost(ok[3], ok[4], ac.record_types)
        total_credits_available == cfg.total_credits
        credits_used_lifetime == GetCreditsUsedLifetime(ok[5], ac.lifetime)
        remaining_credits == GetRemainingCredits(cfg, ok[6], ac.lifetime).value
    IN
    IF ~cfg.has_total_credits
    THEN [raised |-> TRUE, calls |-> 4, report |-> EmptyDict]
    ELSE IF ~cfg.has_credit_expiration
    THEN [raised |-> TRUE, calls |-> 6, report |-> EmptyDict]
    ELSE [raised |-> FALSE, calls |-> 9, report |-> DictLiteral(<<
            <<"period", [start_date |-> FormatDate(an.start_date),
                         end_date |-> FormatDate(an.end_date),
                         period_type |-> cfg.period_type,
                         period_count |-> cfg.period_count]>>,
            <<"costs", [usage_cost_period |-> usage_cost,
                        credits_applied_period |-> Abs(credits_applied),
                        net_cost_period |-> net_cost,
                        total_cost |-> usage_cost]>>,
            <<"credits", PyDict([total_available |-> total_credits_available,
                                 used_lifetime |-> credits_used_lifetime,
                                 remaining |-> remaining_credits,
                                 applied_this_period |-> Abs(credits_applied),
                                 expiration_date |-> cfg.credit_expiration])>>,
            <<"total_cost", usage_cost>>,
            <<"credits", PyFloat(credits_applied)>>,
            <<"net_cost", net_cost>>,
            <<"currency", cfg.currency>>,
            <<"costs_by_service", GetCostByService(ok[7], ac.services, cfg)>>,
            <<"costs_by_usage_type", GetCostByUsageType(ok[8], ac.usage_types, cfg)>>,
            <<"daily_costs", GetDailyCosts(ok[9], ac.daily)>>,
            <<"generated_at", IsoFormat(dt)>> >>)]

(***************************************************************************)
(* billing_manager.py: the console renderer                                *)
(***************************************************************************)

\* dict.get(key, default)
Get(d, k, default) == IF k \in DOMAIN d THEN d[k] ELSE default

\* a mutated classification: the HEALTHY boundary is inclusive
StatusInclusive(remaining_credits) ==
    IF remaining_credits >= 1000000 THEN "HEALTHY"
    ELSE IF remaining_credits > 500000 THEN "MONITOR"
    ELSE IF remaining_credits > 0 THEN "CRITICAL"
    ELSE "EXHAUSTED"

\* the status indicator of _display_report_console
Status(remaining_credits) ==
    IF remaining_credits > 1000000 THEN "HEALTHY"
    ELSE IF remaining_credits > 500000 THEN "MONITOR"
    ELSE IF remaining_credits > 0 THEN "CRITICAL"
    ELSE "EXHAUSTED"

\* BillingManager._display_report_console. ok[1] is the outcome of its
\* get_credits_used_lifetime call, ok[2] of the call inside
\* get_remaining_credits; an exception from either method puts the
\* fallback values in place. api_ok keeps the outcomes of the calls made.
\* The burn rate credits_applied * (30 /
\* (period_count * (30 or 1))) is kept as numerator and denominator;
\* divisors holds every number the function divided by.
DisplayReportConsole(rep, cfg, ok, ac) ==
    LET period_info == Get(rep, "period", EmptyDict)
        costs_info == Get(rep, "costs", EmptyDict)
        credits == Get(rep, "credits", PyDict(EmptyDict))
        currency == Get(rep, "currency", "USD")
        period_type == Get(period_info, "period_type", "d")
        period_count == Get(period_info, "period_count", 1)
        total_credits == 5000000
        fresh == GetRemainingCredits(cfg, ok[2], ac.lifetime)
        used_lifetime ==
            IF fresh.raised THEN 0 ELSE GetCreditsUsedLifetime(ok[1], ac.lifetime)
        remaining_credits == IF fresh.raised THEN total_credits ELSE fresh.value
        usage_cost == Get(costs_info, "usage_cost_period", 0)
        net_cost == Get(costs_info, "net_cost_period", 0)
        credits_applied ==
            IF credits.type = "dict"
            THEN Get(credits, "applied_this_period", 0)
            ELSE IF credits.value < 0 THEN Abs(credits.value) ELSE 0
        burn == period_count > 0 /\ credits_applied > 0
    IN [printed |-> TRUE,
        calls |-> IF fresh.raised THEN 1 ELSE 2,
        api_ok |-> IF fresh.raised THEN <<ok[1]>> ELSE ok,
        currency |-> currency,
        period_count |-> period_count,
        period_text |-> IF period_type = "m" THEN "month" ELSE "day",
        total_credits |-> total_credits,
        used_lifetime |-> used_lifetime,
        remaining_credits |-> remaining_credits,
        usage_cost |-> usage_cost,
        credits_applied |-> credits_applied,
        net_cost |-> Max0(net_cost),
        burn_block |-> burn /\ remaining_credits > 0,
        burn_num |-> IF burn THEN credits_applied * 30 ELSE 0,
        burn_den |-> IF burn
                     THEN period_count * (IF period_type = "m" THEN 30 ELSE 1)
                     ELSE 1,
        divisors |-> (IF total_credits > 0 THEN {total_credits} ELSE {})
                     \cup (IF burn
                           THEN {period_count * (IF period_type = "m" THEN 30 ELSE 1)}
                           ELSE {})
                     \cup (IF burn /\ remaining_credits > 0
                           THEN {credits_applied * 30} ELSE {}),
        status |-> Status(remaining_credits)]

(***************************************************************************)
(* integrations/slack_integration.py                                       *)
(***************************************************************************)

\* SlackIntegration.format_billing_message. It builds its own
\* AWSBillingAnalyzer() and asks it for the remaining credits (call ok[1])
\* and the lifetime credits used (call ok[2]); any exception there leads to
\* the fallback, which reads config.billing.total_credits itself and so
\* raises when the attribute is missing. report['costs'] is always a dict.
FormatBillingMessage(rep, cfg, e, dt, ok, ac) ==
    LET costs_info == Get(rep, "costs", EmptyDict)
        usage_cost == Get(costs_info, "usage_cost_period", 0)
        net_cost == Get(costs_info, "net_cost_period", 0)
        built == e.aws_credentials /\ GetBillingPeriod(cfg, dt).status = "ok"
        fresh == GetRemainingCredits(cfg, ok[1], ac.lifetime)
        fallback == ~built \/ fresh.raised
        Message(lifetime_credits_used, remaining_credits) ==
            [formatted |-> TRUE,
             usage_cost |-> usage_cost,
             lifetime_credits_used |-> lifetime_credits_used,
             remaining_credits |-> remaining_credits,
             net_cost |-> Max0(net_cost)]
    IN
    IF fallback /\ ~cfg.has_total_credits
    THEN [raised |-> TRUE, calls |-> 0, message |-> NoChat]
    ELSE IF fallback
    THEN [raised |-> FALSE, calls |-> 0,
          message |-> Message(490870, cfg.total_credits - 490870)]
    ELSE [raised |-> FALSE, calls |-> 2,
          message |-> Message(GetCreditsUsedLifetime(ok[2], ac.lifetime),
                              fresh.value)]

\* a mutated check of the response: any 2xx status counts as delivered
SendMessageAny2xx(http) == http \in {"200", "204"}

\* SlackIntegration.send_message: one requests.post; http is its outcome,
\* a status code or an exception
SendMessage(http) == http = "200"

\* SlackIntegration.send_alert: one requests.post of an attachment
SendAlert(http) == http = "200"

\* what one requests.post can come to
HttpOutcomes == {"200", "204", "500", "exception"}

(***************************************************************************)
(* example_usage.py and credit_analyzer.py: the burn-rate analyses         *)
(***************************************************************************)

\* a mutated burn rate: the credits are divided by the days of the period
\* whatever their number
ExampleBurnRateUnguarded(credits_applied, days_in_period) ==
    LET computed == Abs(credits_applied) > 0
        rate_num == Abs(credits_applied) * 30
        rate_den == days_in_period
        produced == computed /\ rate_num > 0
    IN [computed |-> computed,
        rate_num |-> IF computed THEN rate_num ELSE 0,
        rate_den |-> IF computed THEN rate_den ELSE 1,
        produced |-> produced,
        divisors |-> (IF computed THEN {days_in_period} ELSE {})
                     \cup (IF produced THEN {rate_num} ELSE {})]

\* the burn rate of example_credit_analysis: daily_burn =
\* abs(credits_applied) / days_in_period if days_in_period > 0 else 0,
\* monthly_burn = daily_burn * 30, kept as numerator and denominator; the
\* months remaining are printed (produced) when monthly_burn > 0
ExampleBurnRate(credits_applied, days_in_period) ==
    LET computed == Abs(credits_applied) > 0
        divided == computed /\ days_in_period > 0
        rate_num == IF divided THEN Abs(credits_applied) * 30 ELSE 0
        rate_den == IF divided THEN days_in_period ELSE 1
        produced == computed /\ rate_num > 0
    IN [computed |-> computed,
        rate_num |-> rate_num,
        rate_den |-> rate_den,
        produced |-> produced,
        divisors |-> (IF divided THEN {days_in_period} ELSE {})
                     \cup (IF produced THEN {rate_num} ELSE {})]

\* example_credit_analysis, with the analyzer it built. ok[1] is the
\* outcome of its get_usage_cost call, ok[2] of get_credits, ok[3] of
\* get_credits_used_lifetime, ok[4] of the call inside
\* get_remaining_credits, which raises (caught, an error line is printed)
\* before any burn rate when the config has no total_credits.
ExampleCreditAnalysis(cfg, an, ok, ac) ==
    LET credits_applied == GetCredits(ok[2], ac.record_types)
        fresh == GetRemainingCredits(cfg, ok[4], ac.lifetime)
        days_in_period == DaysBetween(an.start_date, an.end_date)
        burn == ExampleBurnRate(credits_applied, days_in_period)
    IN [site |-> "example_credit_analysis",
        raised |-> fresh.raised,
        calls |-> IF fresh.raised THEN 3 ELSE 4,
        api_ok |-> IF fresh.raised THEN SubSeq(ok, 1, 3) ELSE ok,
        period_type |-> cfg.period_type,
        period_count |-> cfg.period_count,
        days_in_period |-> days_in_period,
        credits_applied |-> Abs(credits_applied),
        remaining_credits |-> fresh.value,
        computed |-> ~fresh.raised /\ burn.computed,
        rate_num |-> IF fresh.raised THEN 0 ELSE burn.rate_num,
        rate_den |-> IF fresh.raised THEN 1 ELSE burn.rate_den,
        produced |-> ~fresh.raised /\ burn.produced,
        divisors |-> IF fresh.raised THEN {}
                     ELSE burn.divisors
                          \cup (IF cfg.total_credits > 0 THEN {cfg.total_credits}
                                ELSE {})]

\* project_credit_exhaustion, after it has set the period to one month and
\* built its analyzer. ok[1] is the outcome of its get_usage_cost call,
\* ok[2] of the call inside get_remaining_credits. The rate it divides the
\* remaining credits by is the usage cost of the month; it does not query
\* the credits applied.
ProjectCreditExhaustion(cfg, an, ok, ac) ==
    LET monthly_usage == GetUsageCost(ok[1], ac.record_types)
        fresh == GetRemainingCredits(cfg, ok[2], ac.lifetime)
        produced == ~fresh.raised /\ monthly_usage > 0 /\ fresh.value > 0
    IN [site |-> "project_credit_exhaustion",
        raised |-> fresh.raised,
        calls |-> IF fresh.raised THEN 1 ELSE 2,
        api_ok |-> IF fresh.raised THEN SubSeq(ok, 1, 1) ELSE ok,
        period_type |-> cfg.period_type,
        period_count |-> cfg.period_count,
        days_in_period |-> DaysBetween(an.start_date, an.end_date),
        credits_applied |-> 0,
        remaining_credits |-> fresh.value,
        computed |-> ~fresh.raised,
        rate_num |-> IF fresh.raised THEN 0 ELSE monthly_usage,
        rate_den |-> 1,
        produced |-> produced,
        divisors |-> IF produced THEN {monthly_usage} ELSE {}]

(***************************************************************************)
(* example_usage.py and credit_analyzer.py: the other analyses. Each       *)
(* records the divisions it executes for a percentage as                   *)
(* [name, num, den].                                                       *)
(***************************************************************************)

\* sum(d.values()) of a mapping of amounts
RECURSIVE SumValues(_)
SumValues(d) ==
    IF DOMAIN d = {} THEN 0
    ELSE LET k == CHOOSE x \in DOMAIN d : TRUE
         IN FAdd(SumValues([x \in DOMAIN d \ {k} |-> d[x]]), d[k])

\* analyze_current_month, after it has set the period to one month and
\* built its analyzer: ok[1] is the outcome of get_usage_cost, ok[2] of
\* get_credits, ok[3] and ok[4] of the two requests of get_net_cost
AnalyzeCurrentMonth(ok, ac) ==
    LET usage_cost == GetUsageCost(ok[1], ac.record_types)
        credits_applied == GetCredits(ok[2], ac.record_types)
        net_cost == GetNetCost(ok[3], ok[4], ac.record_types)
    IN [raised |-> FALSE,
        calls |-> 4,
        usage_cost |-> usage_cost,
        credits_applied |-> Abs(credits_applied),
        net_cost |-> Max0(net_cost),
        percentages |-> IF usage_cost > 0
                        THEN {[name |-> "credit_coverage",
                               num |-> Abs(credits_applied),
                               den |-> usage_cost]}
                        ELSE {}]

\* analyze_last_three_months, after it has set the period to three months
\* and built its analyzer: the averages are divided by the literal 3
AnalyzeLastThreeMonths(cfg, ok, ac) ==
    [raised |-> FALSE,
     calls |-> 3,
     usage_cost |-> GetUsageCost(ok[1], ac.record_types),
     credits_applied |-> Abs(GetCredits(ok[2], ac.record_types)),
     service_costs |-> GetCostByService(ok[3], ac.services, cfg),
     percentages |-> {}]

\* analyze_lifetime_credits: config.billing.total_credits is read first
\* inside the try, its AttributeError is caught and printed
AnalyzeLifetimeCredits(cfg, ok, ac) ==
    LET credits_used == GetCreditsUsedLifetime(ok[1], ac.lifetime)
        remaining_credits == GetRemainingCredits(cfg, ok[2], ac.lifetime).value
    IN IF ~cfg.has_total_credits
       THEN [raised |-> TRUE, calls |-> 0, percentages |-> {}]
       ELSE [raised |-> FALSE,
             calls |-> 2,
             credits_used |-> credits_used,
             remaining_credits |-> remaining_credits,
             percentages |-> IF cfg.total_credits > 0
                             THEN {[name |-> "percent_used",
                                    num |-> credits_used,
                                    den |-> cfg.total_credits]}
                             ELSE {}]

\* show_optimization_suggestions: the share of the highest service is
\* divided by the total without a test of the total; a ZeroDivisionError is
\* caught and printed
ShowOptimizationSuggestions(cfg, ok, ac) ==
    LET service_costs == GetCostByService(ok, ac.services, cfg)
        total_cost == SumValues(service_costs)
        top == CHOOSE k \in DOMAIN service_costs :
                  \A j \in DOMAIN service_costs :
                      service_costs[j] <= service_costs[k]
    IN IF DOMAIN service_costs = {}
       THEN [raised |-> FALSE, calls |-> 1, percentages |-> {}]
       ELSE [raised |-> total_cost = 0,
             calls |-> 1,
             percentages |-> {[name |-> "top_service",
                               num |-> service_costs[top],
                               den |-> total_cost]}]

\* the breakdown of example_service_analysis and of
\* example_usage_type_analysis over the mapping their query returned:
\* percentage = (cost / total_cost * 100) if total_cost > 0 else 0
ExampleShares(name, costs_by_key) ==
    LET total_cost == SumValues(costs_by_key)
    IN [raised |-> FALSE,
        calls |-> 1,
        percentages |-> IF DOMAIN costs_by_key # {} /\ total_cost > 0
                        THEN {[name |-> name,
                               num |-> costs_by_key[k],
                               den |-> total_cost] : k \in DOMAIN costs_by_key}
                        ELSE {}]

\* example_monthly_credit_trend, on the report it generated: the value at
\* 'credits' is the float, so the remaining credits are the literal 5000
ExampleMonthlyCreditTrend(rep) ==
    LET costs_info == Get(rep, "costs", EmptyDict)
        credits_info == Get(rep, "credits", PyDict(EmptyDict))
    IN [raised |-> FALSE,
        usage_cost |-> Get(costs_info, "usage_cost_period", 0),
        credits_applied |->
            IF credits_info.type = "dict"
            THEN Get(credits_info, "applied_this_period", 0)
            ELSE IF credits_info.value < 0 THEN Abs(credits_info.value) ELSE 0,
        remaining_credits |->
            IF credits_info.type = "dict"
            THEN Get(credits_info, "remaining", 0)
            ELSE 5000000,
        percentages |-> {}]

(***************************************************************************)
(* Period resolver on its own: the shared config is assigned to (as the    *)
(* example and analysis scripts do) and the period is resolved.            *)
(***************************************************************************)
InitPeriod ==
    /\ config \in {[DefaultConfig EXCEPT !.period_type = t, !.period_count = c] :
                      t \in {"d", "m"}, c \in PeriodCounts}
    /\ now \in NowValues
    /\ period = NoPeriod
    /\ acct = DefaultAcct
    /\ costs = NoCosts
    /\ env = [aws_credentials |-> TRUE, slack_webhook_url |-> FALSE]
    /\ RunIdle

\* config.billing.period_type = t
AssignPeriodType ==
    /\ \E t \in PeriodTypes : config' = [config EXCEPT !.period_type = t]
    /\ UNCHANGED <<now, period, acct, costs, runVars>>

\* config.billing.period_count = c
AssignPeriodCount ==
    /\ \E c \in PeriodCounts : config' = [config EXCEPT !.period_count = c]
    /\ UNCHANGED <<now, period, acct, costs, runVars>>

\* start_date, end_date = config.get_billing_period()
ResolvePeriod ==
    /\ period' = GetBillingPeriod(config, now)
    /\ UNCHANGED <<config, now, acct, costs, runVars>>

NextPeriod == AssignPeriodType \/ AssignPeriodCount \/ ResolvePeriod

SpecPeriod == InitPeriod /\ [][NextPeriod]_vars

(***************************************************************************)
(* One run of main() of billing_manager.py.                                *)
(***************************************************************************)

\* the configurations a run starts from: Config() as declared, and Config()
\* whose billing section also carries the attributes aws_billing.py reads
\* (total_credits, credit_expiration), with a valid, an empty and an
\* unsupported period
RunConfigs ==
    {[DefaultConfig EXCEPT !.period_type = pt[1], !.period_count = pt[2],
                           !.has_total_credits = cr[1], !.total_credits = cr[2],
                           !.has_credit_expiration = cr[3],
                           !.credit_expiration = cr[4]] :
        pt \in {<<"m", 1>>, <<"d", 0>>, <<"w", 1>>},
        cr \in {<<FALSE, 0, FALSE, "none">>,
                <<TRUE, 5000000, TRUE, "2026-12-31">>,
                <<TRUE, 1000000, TRUE, "2026-12-31">>,
                <<TRUE, 5000000, FALSE, "none">>}}

\* the accounts a run is made against: period usage 200.00 with credits of
\* 150.00, 250.00 or none, and lifetime credits of 4600, 4000 (over two
\* months) or 4500
RunAccts ==
    {[DefaultAcct EXCEPT !.record_types = a[1], !.lifetime = a[2]] :
        a \in {
          << << << [key |-> "Usage", amount |-> 200000],
                   [key |-> "Credit", amount |-> 0 - 150000] >> >>,
             << << [key |-> "Credit", amount |-> 0 - 4600000] >> >> >>,
          << << << [key |-> "Usage", amount |-> 200000],
                   [key |-> "Credit", amount |-> 0 - 250000] >> >>,
             << << [key |-> "Credit", amount |-> 0 - 3000000],
                   [key |-> "Usage", amount |-> 9000] >>,
                << [key |-> "Credit", amount |-> 0 - 1000000] >> >> >>,
          << << << [key |-> "Usage", amount |-> 150000] >>,
                << [key |-> "Usage", amount |-> 50000],
                   [key |-> "Tax", amount |-> 5000] >> >>,
             << << [key |-> "Credit", amount |-> 0 - 4500000] >> >> >> }}

Init ==
    /\ config \in RunConfigs
    /\ now \in {[day |-> 1000, tod |-> 1]}
    /\ period = NoPeriod
    /\ acct \in RunAccts
    /\ costs = NoCosts
    /\ env \in [aws_credentials : BOOLEAN, slack_webhook_url : BOOLEAN]
    /\ pc = "start"
    /\ analyzer = NoAnalyzer
    /\ slack_integration = FALSE
    /\ api_log = <<>>
    /\ api_calls = 0
    /\ report = EmptyDict
    /\ console = NoConsole
    /\ chat = NoChat
    /\ posts = <<>>
    /\ delivery = NoDelivery
    /\ projection = NoProjection
    /\ result = EmptyDict
    /\ exit_code = 0 - 1
    /\ message = "none"

\* billing_manager = BillingManager(): AWSBillingAnalyzer() raises
\* ValueError when a credential is missing, and so does its call of
\* config.get_billing_period() for an unsupported period type; main() does
\* not catch it. Then the Slack integration is set up.
Construct ==
    /\ pc = "start"
    /\ IF ~env.aws_credentials
       THEN /\ pc' = "crashed"
            /\ exit_code' = 1
            /\ UNCHANGED <<period, analyzer, slack_integration>>
       ELSE /\ period' = GetBillingPeriod(config, now)
            /\ IF period'.status = "ok"
               THEN /\ analyzer' = [constructed |-> TRUE,
                                     start_date |-> period'.start_date,
                                     end_date |-> period'.end_date]
                    /\ slack_integration' =
                          (config.slack_enabled /\ env.slack_webhook_url)
                    /\ pc' = "constructed"
                    /\ UNCHANGED exit_code
               ELSE /\ pc' = "crashed"
                    /\ exit_code' = 1
                    /\ UNCHANGED <<analyzer, slack_integration>>
    /\ UNCHANGED <<config, now, acct, costs, env, api_log, api_calls, report,
                   console, chat, posts, delivery, projection, result, message>>

\* if not billing_manager.check_aws_credentials(): print the error, return
CheckAwsCredentials ==
    /\ pc = "constructed"
    /\ IF env.aws_credentials
       THEN pc' = "checked" /\ UNCHANGED <<exit_code, message>>
       ELSE pc' = "done" /\ exit_code' = 0 /\ message' = "credentials not found"
    /\ UNCHANGED <<cfgVars, env, analyzer, slack_integration, api_log,
                   api_calls, report, console, chat, posts, delivery, projection, result>>

\* a mutated run_billing_analysis: the empty report of a failed generation
\* is passed on to send_notifications
GenerateReportUnchecked ==
    /\ pc = "checked"
    /\ \E ok \in [1..9 -> BOOLEAN] :
          LET g == GenerateBillingReport(config, analyzer, now, ok, acct) IN
          /\ api_log' = SubSeq(ok, 1, g.calls)
          /\ api_calls' = api_calls + g.calls
          /\ report' = g.report
          /\ pc' = IF g.raised THEN "displayed" ELSE "generated"
    /\ UNCHANGED <<cfgVars, env, analyzer, slack_integration, console, chat,
                   posts, delivery, projection, result, exit_code, message>>

\* generate_and_display_report, first half: report =
\* self.aws_analyzer.generate_billing_report(); an exception is logged and
\* {} returned, on which run_billing_analysis returns {} as well
GenerateReport ==
    /\ pc = "checked"
    /\ \E ok \in [1..9 -> BOOLEAN] :
          LET g == GenerateBillingReport(config, analyzer, now, ok, acct) IN
          /\ api_log' = SubSeq(ok, 1, g.calls)
          /\ api_calls' = api_calls + g.calls
          /\ report' = g.report
          /\ pc' = IF g.raised THEN "analysed" ELSE "generated"
    /\ UNCHANGED <<cfgVars, env, analyzer, slack_integration, console, chat,
                   posts, delivery, projection, result, exit_code, message>>

\* generate_and_display_report, second half:
\* self._display_report_console(report)
DisplayReport ==
    /\ pc = "generated"
    /\ \E ok \in [1..2 -> BOOLEAN] :
          /\ console' = DisplayReportConsole(report, config, ok, acct)
          /\ api_calls' = api_calls + console'.calls
    /\ pc' = "displayed"
    /\ UNCHANGED <<cfgVars, env, analyzer, slack_integration, api_log, report,
                   chat, posts, delivery, projection, result, exit_code, message>>

\* a mutated send_notifications: an exception of the POST is not caught and
\* ends the run
SendNotificationsUncaught ==
    /\ pc = "displayed"
    /\ env.slack_webhook_url
    /\ IF slack_integration
       THEN \E ok \in [1..2 -> BOOLEAN], http \in HttpOutcomes :
              LET m == FormatBillingMessage(report, config, env, now, ok, acct) IN
              /\ chat' = m.message
              /\ api_calls' = api_calls + m.calls
              /\ posts' = IF m.raised THEN posts ELSE Append(posts, http)
              /\ delivery' = IF m.raised THEN delivery
                              ELSE [method |-> "send_message",
                                    returned |-> SendMessage(http),
                                    raised |-> http = "exception",
                                    seq |-> delivery.seq + 1]
              /\ IF ~m.raised /\ http = "exception"
                 THEN pc' = "crashed" /\ exit_code' = 1 /\ UNCHANGED result
                 ELSE pc' = "analysed" /\ result' = report /\ UNCHANGED exit_code
       ELSE /\ UNCHANGED <<chat, api_calls, posts, delivery, exit_code>>
            /\ result' = report
            /\ pc' = "analysed"
    /\ UNCHANGED <<cfgVars, env, analyzer, slack_integration, api_log, report,
                   console, projection, message>>

\* run_billing_analysis with send_notifications true (the webhook URL is
\* set): send_notifications(report), then return report.  With a Slack
\* integration the message is formatted and posted once; an exception
\* from send_billing_report is logged.
SendNotifications ==
    /\ pc = "displayed"
    /\ env.slack_webhook_url
    /\ IF slack_integration
       THEN \E ok \in [1..2 -> BOOLEAN], http \in HttpOutcomes :
              LET m == FormatBillingMessage(report, config, env, now, ok, acct) IN
              /\ chat' = m.message
              /\ api_calls' = api_calls + m.calls
              /\ posts' = IF m.raised THEN posts ELSE Append(posts, http)
              /\ delivery' = IF m.raised THEN delivery
                              ELSE [method |-> "send_message",
                                    returned |-> SendMessage(http),
                                    raised |-> FALSE,
                                    seq |-> delivery.seq + 1]
       ELSE UNCHANGED <<chat, api_calls, posts, delivery>>
    /\ result' = report
    /\ pc' = "analysed"
    /\ UNCHANGED <<cfgVars, env, analyzer, slack_integration, api_log, report,
                   console, projection, exit_code, message>>

\* run_billing_analysis with send_notifications false: return report
ReturnReport ==
    /\ pc = "displayed"
    /\ ~env.slack_webhook_url
    /\ result' = report
    /\ pc' = "analysed"
    /\ UNCHANGED <<cfgVars, env, analyzer, slack_integration, api_log,
                   api_calls, report, console, chat, posts, delivery, projection, exit_code,
                   message>>

\* main() after run_billing_analysis: print the closing line and return
Finish ==
    /\ pc = "analysed"
    /\ message' = IF DOMAIN result # {} THEN "completed successfully" ELSE "failed"
    /\ exit_code' = 0
    /\ pc' = "done"
    /\ UNCHANGED <<cfgVars, env, analyzer, slack_integration, api_log,
                   api_calls, report, console, chat, posts, delivery, projection, result>>

Next ==
    \/ Construct
    \/ CheckAwsCredentials
    \/ GenerateReport
    \/ DisplayReport
    \/ SendNotifications
    \/ ReturnReport
    \/ Finish

Spec == Init /\ [][Next]_vars

(***************************************************************************)
(* Properties of the period resolver.                                      *)
(***************************************************************************)

\* C6: a returned range ends at today's midnight and spans exactly count
\* days for kind 'd' and count x 30 days for kind 'm'; for the same now,
\* d/7 and m/1 span 7 and 30 days.
C6_PeriodLength ==
    /\ period.status = "ok" =>
          /\ period.end_date = [day |-> now.day, tod |-> 0]
          /\ period.period_type = "d" =>
                DaysBetween(period.start_date, period.end_date) = period.period_count
          /\ period.period_type = "m" =>
                DaysBetween(period.start_date, period.end_date) = period.period_count * 30
    /\ (period.status = "ok" /\ period.period_type = "d" /\ period.period_count = 7) =>
          /\ DaysBetween(period.start_date, period.end_date) = 7
          /\ LET other == GetBillingPeriod(
                             [config EXCEPT !.period_type = "m", !.period_count = 1], now)
             IN /\ other.status = "ok"
                /\ DaysBetween(other.start_date, other.end_date) = 30
                /\ other.end_date = period.end_date

\* a 7-day range has been resolved at a time of day other than midnight
C6_Witness ==
    /\ period.status = "ok"
    /\ now.tod = 1
    /\ period.period_type = "d"
    /\ period.period_count = 7

\* C7: every range the resolver returns has start < end.
C7_StartBeforeEnd ==
    period.status = "ok" => period.start_date.day < period.end_date.day

\* C8: resolving fails, returning no period, whenever the kind is neither
\* 'd' nor 'm' or the count is below 1.
C8_InvalidConfigRejected ==
    (period.status # "none"
       /\ (period.period_type \notin {"d", "m"} \/ period.period_count < 1))
    => period.status = "ValueError"

(***************************************************************************)
(* The aggregating queries on their own: Cost Explorer holds any bounded   *)
(* grouped response, and a query is made against it.                       *)
(***************************************************************************)
InitAgg ==
    /\ config = DefaultConfig
    /\ now \in {[day |-> 1000, tod |-> 1]}
    /\ period = NoPeriod
    /\ acct \in {[DefaultAcct EXCEPT !.services = r] : r \in GroupedResponses}
               \cup {[DefaultAcct EXCEPT !.usage_types = r] : r \in GroupedResponses}
    /\ costs = NoCosts
    /\ env = [aws_credentials |-> TRUE, slack_webhook_url |-> FALSE]
    /\ RunIdle

\* analyzer.get_cost_by_service()
CallGetCostByService ==
    /\ api_calls < MaxApiCalls
    /\ \E ok \in BOOLEAN :
          /\ costs' = [method |-> "get_cost_by_service", failed |-> ~ok,
                       result |-> GetCostByService(ok, acct.services, config)]
          /\ api_log' = <<ok>>
    /\ api_calls' = api_calls + Len(api_log')
    /\ UNCHANGED queryFrame

\* analyzer.get_cost_by_usage_type()
CallGetCostByUsageType ==
    /\ api_calls < MaxApiCalls
    /\ \E ok \in BOOLEAN :
          /\ costs' = [method |-> "get_cost_by_usage_type", failed |-> ~ok,
                       result |-> GetCostByUsageType(ok, acct.usage_types, config)]
          /\ api_log' = <<ok>>
    /\ api_calls' = api_calls + Len(api_log')
    /\ UNCHANGED queryFrame

NextAgg == CallGetCostByService \/ CallGetCostByUsageType

SpecAgg == InitAgg /\ [][NextAgg]_vars

(***************************************************************************)
(* Properties of the aggregating queries.                                  *)
(***************************************************************************)

\* the response the last stand-alone query was made against
QueriedResponse ==
    IF costs.method = "get_cost_by_service" THEN acct.services ELSE acct.usage_types

\* the float sum of the amounts of key k, added to acc one after the
\* other in the order of the groups
RECURSIVE SumOfKeyFrom(_, _, _)
SumOfKeyFrom(groups, k, acc) ==
    IF groups = <<>> THEN acc
    ELSE SumOfKeyFrom(Tail(groups), k,
                      IF Head(groups).key = k
                      THEN FAdd(acc, Head(groups).amount) ELSE acc)

SumOfKeyInGroups(groups, k) == SumOfKeyFrom(groups, k, 0)

\* the float sum of the amounts of key k in a response, bucket by bucket
\* and group by group
RECURSIVE SumOfKeyOnto(_, _, _)
SumOfKeyOnto(response, k, acc) ==
    IF response = <<>> THEN acc
    ELSE SumOfKeyOnto(Tail(response), k, SumOfKeyFrom(Head(response), k, acc))

SumOfKey(response, k) == SumOfKeyOnto(response, k, 0)

KeysIn(response) ==
    UNION {{response[i][j].key : j \in DOMAIN response[i]} : i \in DOMAIN response}

\* C9: a successful aggregation holds one entry per distinct key of the
\* response, mapped to the sum of that key's amounts over all time buckets,
\* before the threshold filter; every key returned carries that sum; and an
\* empty response gives an empty mapping, not a failure.
C9_SumPerKey ==
    (costs.method # "none" /\ ~costs.failed) =>
        LET service_costs == AccumulateResults(QueriedResponse) IN
        /\ DOMAIN service_costs = KeysIn(QueriedResponse)
        /\ \A k \in KeysIn(QueriedResponse) :
              service_costs[k] = SumOfKey(QueriedResponse, k)
        /\ \A k \in DOMAIN costs.result :
              costs.result[k] = SumOfKey(QueriedResponse, k)
        /\ QueriedResponse = <<>> => costs.result = EmptyDict

\* a key met in two time buckets has been summed and returned
C9_Witness ==
    /\ costs.method = "get_cost_by_service"
    /\ ~costs.failed
    /\ Len(acct.services) = 2
    /\ \E k \in DOMAIN costs.result :
          /\ SumOfKeyInGroups(acct.services[1], k) > 0
          /\ SumOfKeyInGroups(acct.services[2], k) > 0
          /\ costs.result[k] = 240000

\* C10: a key is in the returned mapping if and only if its summed amount
\* is >= min_cost_threshold: a sum equal to the threshold is kept, a sum
\* below it is absent; {EC2: 120.00, S3: 0.005} gives {EC2: 120.00}.
C10_ThresholdFilter ==
    (costs.method # "none" /\ ~costs.failed) =>
        /\ DOMAIN costs.result =
              {k \in KeysIn(QueriedResponse) :
                  SumOfKey(QueriedResponse, k) >= config.min_cost_threshold}
        /\ \A k \in KeysIn(QueriedResponse) :
              /\ SumOfKey(QueriedResponse, k) = config.min_cost_threshold
                    => k \in DOMAIN costs.result
              /\ SumOfKey(QueriedResponse, k) < config.min_cost_threshold
                    => k \notin DOMAIN costs.result
        /\ QueriedResponse = << << [key |-> "EC2", amount |-> 120000],
                                    [key |-> "S3", amount |-> 5] >> >>
              => costs.result = [k \in {"EC2"} |-> 120000]

\* a group summing to exactly the threshold over two buckets was kept while
\* another key below the threshold was dropped
C10_Witness ==
    /\ costs.method = "get_cost_by_usage_type"
    /\ ~costs.failed
    /\ acct.usage_types = << << [key |-> "S3", amount |-> 5],
                                [key |-> "EC2", amount |-> 5] >>,
                             << [key |-> "S3", amount |-> 5] >> >>
    /\ costs.result = [k \in {"S3"} |-> 10]

(***************************************************************************)
(* The aggregating queries against responses whose sums get rounded.       *)
(***************************************************************************)
InitOrder ==
    /\ config = DefaultConfig
    /\ now \in {[day |-> 1000, tod |-> 1]}
    /\ period = NoPeriod
    /\ acct \in {[DefaultAcct EXCEPT !.services = r] : r \in ResponsesOver(RoundedGroup)}
               \cup {[DefaultAcct EXCEPT !.usage_types = r] :
                        r \in ResponsesOver(RoundedGroup)}
    /\ costs = NoCosts
    /\ env = [aws_credentials |-> TRUE, slack_webhook_url |-> FALSE]
    /\ RunIdle

SpecOrder == InitOrder /\ [][NextAgg]_vars

\* the groups of a response in the order the loops meet them
RECURSIVE Flatten(_)
Flatten(response) ==
    IF response = <<>> THEN <<>> ELSE Head(response) \o Flatten(Tail(response))

\* every response holding the same records as the one given, in any order
\* and cut into time buckets in any way
Rearrangements(response) ==
    LET flat == Flatten(response)
        n == Len(flat)
        perms == {p \in [1..n -> 1..n] : \A i, j \in 1..n : p[i] = p[j] => i = j}
    IN UNION {UNION {{Split([i \in 1..n |-> flat[p[i]]], l) :
                        l \in {x \in [1..b -> 0..n] : PrefixSum(x, b) = n}} :
                     b \in (IF n = 0 THEN 0 ELSE 1)..MaxBuckets} :
              p \in perms}

\* C11: the mapping a successful aggregation returns is the same for
\* every rearrangement of the records of the response, in order and over
\* the time buckets.
C11_OrderInvariant ==
    (costs.method # "none" /\ ~costs.failed) =>
        \A r \in Rearrangements(QueriedResponse) :
           (IF costs.method = "get_cost_by_service"
            THEN GetCostByService(TRUE, r, config)
            ELSE GetCostByUsageType(TRUE, r, config)) = costs.result

(***************************************************************************)
(* The adapter on its own: a caller holding an AWSBillingAnalyzer calls    *)
(* its query methods one after the other.                                  *)
(***************************************************************************)

\* the totals of the monthly buckets of the period: a period that the
\* service accepts has at least one bucket
BucketTotals == SeqUpTo(Amounts, MaxBuckets) \ {<<>>}

InitAdapter ==
    /\ config \in {DefaultConfig,
                    [DefaultConfig EXCEPT !.has_total_credits = TRUE,
                                          !.total_credits = 5000000]}
    /\ now \in {[day |-> 1000, tod |-> 1]}
    /\ period = NoPeriod
    /\ acct \in {[a EXCEPT !.totals = t] : a \in RunAccts, t \in BucketTotals}
    /\ costs = NoCosts
    /\ env = [aws_credentials |-> TRUE, slack_webhook_url |-> FALSE]
    /\ RunIdle

\* analyzer.get_daily_costs()
CallGetDailyCosts ==
    /\ api_calls < MaxApiCalls
    /\ \E ok \in BOOLEAN :
          /\ costs' = [method |-> "get_daily_costs", failed |-> ~ok,
                       result |-> GetDailyCosts(ok, acct.daily)]
          /\ api_log' = <<ok>>
    /\ api_calls' = api_calls + Len(api_log')
    /\ UNCHANGED queryFrame

\* analyzer.get_total_cost()
CallGetTotalCost ==
    /\ api_calls < MaxApiCalls
    /\ \E ok \in BOOLEAN :
          /\ costs' = [method |-> "get_total_cost", failed |-> ~ok,
                       result |-> GetTotalCost(ok, acct.totals)]
          /\ api_log' = <<ok>>
    /\ api_calls' = api_calls + Len(api_log')
    /\ UNCHANGED queryFrame

\* analyzer.get_credits()
CallGetCredits ==
    /\ api_calls < MaxApiCalls
    /\ \E ok \in BOOLEAN :
          /\ costs' = [method |-> "get_credits", failed |-> ~ok,
                       result |-> GetCredits(ok, acct.record_types)]
          /\ api_log' = <<ok>>
    /\ api_calls' = api_calls + Len(api_log')
    /\ UNCHANGED queryFrame

\* analyzer.get_usage_cost()
CallGetUsageCost ==
    /\ api_calls < MaxApiCalls
    /\ \E ok \in BOOLEAN :
          /\ costs' = [method |-> "get_usage_cost", failed |-> ~ok,
                       result |-> GetUsageCost(ok, acct.record_types)]
          /\ api_log' = <<ok>>
    /\ api_calls' = api_calls + Len(api_log')
    /\ UNCHANGED queryFrame

\* analyzer.get_credits_used_lifetime()
CallGetCreditsUsedLifetime ==
    /\ api_calls < MaxApiCalls
    /\ \E ok \in BOOLEAN :
          /\ costs' = [method |-> "get_credits_used_lifetime", failed |-> ~ok,
                       result |-> GetCreditsUsedLifetime(ok, acct.lifetime)]
          /\ api_log' = <<ok>>
    /\ api_calls' = api_calls + Len(api_log')
    /\ UNCHANGED queryFrame

\* analyzer.get_remaining_credits(): the AttributeError on
\* config.billing.total_credits comes before the request of
\* get_credits_used_lifetime
CallGetRemainingCredits ==
    /\ api_calls < MaxApiCalls
    /\ \E ok \in BOOLEAN :
          LET r == GetRemainingCredits(config, ok, acct.lifetime) IN
          /\ costs' = [method |-> "get_remaining_credits",
                       failed |-> r.raised \/ ~ok,
                       result |-> r.value]
          /\ api_log' = IF r.raised THEN <<>> ELSE <<ok>>
    /\ api_calls' = api_calls + Len(api_log')
    /\ UNCHANGED queryFrame

\* analyzer.get_net_cost(): get_usage_cost() and then get_credits(), each
\* with a request of its own
CallGetNetCost ==
    /\ api_calls < MaxApiCalls
    /\ \E ok_usage \in BOOLEAN, ok_credits \in BOOLEAN :
          /\ costs' = [method |-> "get_net_cost",
                       failed |-> ~ok_usage \/ ~ok_credits,
                       result |-> GetNetCost(ok_usage, ok_credits, acct.record_types)]
          /\ api_log' = <<ok_usage, ok_credits>>
    /\ api_calls' = api_calls + Len(api_log')
    /\ UNCHANGED queryFrame

NextAdapter ==
    \/ CallGetCostByService
    \/ CallGetCostByUsageType
    \/ CallGetDailyCosts
    \/ CallGetTotalCost
    \/ CallGetCredits
    \/ CallGetUsageCost
    \/ CallGetCreditsUsedLifetime
    \/ CallGetRemainingCredits
    \/ CallGetNetCost

SpecAdapter == InitAdapter /\ [][NextAdapter]_vars

\* C21: every call of a query method of the adapter issues exactly one
\* get_cost_and_usage request, whether the request succeeds or fails.
C21_OneRequestPerCall ==
    costs.method # "none" => Len(api_log) = 1

\* C27: get_total_cost returns the sum of the totals of all the time
\* buckets of the response, and 0.0 only when the request fails.
C27_TotalOverAllBuckets ==
    LET totals == acct.totals
        Sum[i \in 0..Len(totals)] ==
            IF i = 0 THEN 0 ELSE FAdd(Sum[i - 1], totals[i])
    IN costs.method = "get_total_cost" =>
           /\ ~costs.failed => costs.result = Sum[Len(totals)]
           /\ costs.result = 0 => costs.failed

(***************************************************************************)
(* The shared config and the analyzer held by a caller: the caller assigns *)
(* to config.billing, builds its AWSBillingAnalyzer and asks it for        *)
(* reports, in any order. The analyzer is followed from its construction.  *)
(***************************************************************************)

InitShared ==
    /\ config = [DefaultConfig EXCEPT !.has_total_credits = TRUE,
                                      !.total_credits = 5000000,
                                      !.has_credit_expiration = TRUE,
                                      !.credit_expiration = "2026-12-31"]
    /\ now = [day |-> 1000, tod |-> 1]
    /\ period = NoPeriod
    /\ acct = DefaultAcct
    /\ costs = NoCosts
    /\ env = [aws_credentials |-> TRUE, slack_webhook_url |-> FALSE]
    /\ RunIdle

\* analyzer = AWSBillingAnalyzer(): the period is resolved from the config
\* as it is now and kept in self.start_date, self.end_date; a ValueError of
\* get_billing_period leaves the caller without a new analyzer
ConstructAnalyzer ==
    /\ ~analyzer.constructed
    /\ period' = GetBillingPeriod(config, now)
    /\ analyzer' = IF period'.status = "ok"
                   THEN [constructed |-> TRUE,
                         start_date |-> period'.start_date,
                         end_date |-> period'.end_date]
                   ELSE analyzer
    /\ UNCHANGED <<config, now, acct, costs, env, pc, slack_integration,
                   api_log, api_calls, report, console, chat, posts, delivery,
                   projection, result, exit_code, message>>

\* report = analyzer.generate_billing_report(): the dates are those of the
\* analyzer, the period type and count are read from the config as it is
\* now
CallGenerateBillingReport ==
    /\ analyzer.constructed
    /\ api_calls < MaxApiCalls
    /\ \E ok \in {[i \in 1..9 |-> b] : b \in BOOLEAN} :
          LET g == GenerateBillingReport(config, analyzer, now, ok, acct)
          IN /\ api_log' = SubSeq(ok, 1, g.calls)
             /\ report' = g.report
    /\ api_calls' = api_calls + Len(api_log')
    /\ UNCHANGED <<config, now, period, acct, costs, env, pc, analyzer,
                   slack_integration, console, chat, posts, delivery,
                   projection, result, exit_code, message>>

NextShared ==
    \/ AssignPeriodType
    \/ AssignPeriodCount
    \/ ConstructAnalyzer
    \/ CallGenerateBillingReport

SpecShared == InitShared /\ [][NextShared]_vars

\* C22: the period type and count recorded in a report describe the range
\* between the report's start and end dates: end - start is the count in
\* days for 'd' and the count times 30 for 'm'.
C22_ReportPeriodConsistent ==
    report # EmptyDict =>
        LET p == report["period"]
            days == p.end_date - p.start_date
        IN \/ p.period_type = "d" /\ days = p.period_count
           \/ p.period_type = "m" /\ days = p.period_count * 30

\* C24: every entry of the costs by service, of the costs by usage type
\* and of the daily costs of a report has an amount of at least the
\* configured minimum-cost threshold.
C24_ReportEntriesAboveThreshold ==
    report # EmptyDict =>
        /\ \A k \in DOMAIN report["costs_by_service"] :
              report["costs_by_service"][k] >= config.min_cost_threshold
        /\ \A k \in DOMAIN report["costs_by_usage_type"] :
              report["costs_by_usage_type"][k] >= config.min_cost_threshold
        /\ \A i \in DOMAIN report["daily_costs"] :
              report["daily_costs"][i].cost >= config.min_cost_threshold

(***************************************************************************)
(* The Slack integration on its own: a caller holding a SlackIntegration   *)
(* sends messages and alerts.                                              *)
(***************************************************************************)
InitSlack ==
    /\ config = DefaultConfig
    /\ now \in {[day |-> 1000, tod |-> 1]}
    /\ period = NoPeriod
    /\ acct = DefaultAcct
    /\ costs = NoCosts
    /\ env = [aws_credentials |-> TRUE, slack_webhook_url |-> TRUE]
    /\ pc = "idle"
    /\ analyzer = NoAnalyzer
    /\ slack_integration = TRUE
    /\ api_log = <<>>
    /\ api_calls = 0
    /\ report = EmptyDict
    /\ console = NoConsole
    /\ chat = NoChat
    /\ posts = <<>>
    /\ delivery = NoDelivery
    /\ projection = NoProjection
    /\ result = EmptyDict
    /\ exit_code = 0 - 1
    /\ message = "none"

\* slack.send_message(message)
CallSendMessage ==
    /\ slack_integration
    /\ Len(posts) < MaxPosts
    /\ \E http \in HttpOutcomes :
          /\ posts' = Append(posts, http)
          /\ delivery' = [method |-> "send_message",
                          returned |-> SendMessage(http),
                          raised |-> FALSE,
                          seq |-> delivery.seq + 1]
    /\ UNCHANGED <<cfgVars, env, pc, analyzer, slack_integration, api_log,
                   api_calls, report, console, chat, projection, result,
                   exit_code, message>>

\* slack.send_alert(title, message, color)
CallSendAlert ==
    /\ slack_integration
    /\ Len(posts) < MaxPosts
    /\ \E http \in HttpOutcomes :
          /\ posts' = Append(posts, http)
          /\ delivery' = [method |-> "send_alert",
                          returned |-> SendAlert(http),
                          raised |-> FALSE,
                          seq |-> delivery.seq + 1]
    /\ UNCHANGED <<cfgVars, env, pc, analyzer, slack_integration, api_log,
                   api_calls, report, console, chat, projection, result,
                   exit_code, message>>

NextSlack == CallSendMessage \/ CallSendAlert

SpecSlack == InitSlack /\ [][NextSlack]_vars

\* C12: every send_message and send_alert call makes exactly one POST (as
\* many POSTs as calls, no retry after a failure), raises nothing, and
\* returns True exactly when that POST came back with status 200: False
\* for any other status and for an exception of the POST.
C12_SinglePostPerDelivery ==
    /\ Len(posts) = delivery.seq
    /\ delivery.method # "none" =>
          /\ ~delivery.raised
          /\ delivery.returned = (posts[Len(posts)] = "200")
          /\ posts[Len(posts)] \in {"204", "500", "exception"} => ~delivery.returned

\* an alert has been delivered after a message whose POST raised and one
\* that was answered with another 2xx status: three calls, three POSTs
C12_Witness ==
    /\ delivery.method = "send_alert"
    /\ delivery.returned
    /\ delivery.seq = 3
    /\ posts = <<"exception", "204", "200">>

(***************************************************************************)
(* The example and analysis scripts: the basic run without notifications,  *)
(* and the credit analysis of example_usage.py or the exhaustion           *)
(* projection of credit_analyzer.py, each called once as the main() of its *)
(* script does, in any order, against one account.                         *)
(***************************************************************************)

\* the configurations the scripts start from: one month, seven days, and a
\* count of zero, without and with the credit attributes
ScriptConfigs ==
    {[DefaultConfig EXCEPT !.period_type = pt[1], !.period_count = pt[2],
                           !.has_total_credits = cr[1], !.total_credits = cr[2],
                           !.has_credit_expiration = cr[3],
                           !.credit_expiration = cr[4]] :
        pt \in {<<"m", 1>>, <<"d", 7>>, <<"d", 0>>},
        cr \in {<<FALSE, 0, FALSE, "none">>,
                <<TRUE, 5000000, TRUE, "2026-12-31">>}}

\* the outcomes of the nine requests of generate_billing_report explored
\* by the scripts: all answered, or all but the usage or the credits query
ScriptOks ==
    {[i \in 1..9 |-> i # failed] : failed \in {0, 1, 2}}

InitScripts ==
    /\ config \in ScriptConfigs
    /\ now \in {[day |-> 1000, tod |-> 1]}
    /\ period = NoPeriod
    /\ acct \in RunAccts
    /\ costs = NoCosts
    /\ env = [aws_credentials |-> TRUE, slack_webhook_url |-> FALSE]
    /\ RunIdle

\* example_basic_usage: BillingManager(), then
\* run_billing_analysis(send_notifications=False)
CallExampleBasicUsage ==
    /\ api_log = <<>>
    /\ period' = GetBillingPeriod(config, now)
    /\ analyzer' = [constructed |-> TRUE,
                    start_date |-> period'.start_date,
                    end_date |-> period'.end_date]
    /\ \E ok \in ScriptOks, okd \in [1..2 -> BOOLEAN] :
          LET g == GenerateBillingReport(config, analyzer', now, ok, acct)
          IN /\ api_log' = SubSeq(ok, 1, g.calls)
             /\ report' = g.report
             /\ result' = report'
             /\ console' = IF report' = EmptyDict THEN console
                            ELSE DisplayReportConsole(report', config, okd, acct)
             /\ api_calls' = api_calls + Len(api_log')
                              + (IF report' = EmptyDict THEN 0 ELSE console'.calls)
    /\ UNCHANGED <<config, now, acct, costs, env, pc, slack_integration, chat,
                   posts, delivery, projection, exit_code, message>>

\* example_credit_analysis()
CallExampleCreditAnalysis ==
    /\ projection = NoProjection
    /\ period' = GetBillingPeriod(config, now)
    /\ analyzer' = [constructed |-> TRUE,
                    start_date |-> period'.start_date,
                    end_date |-> period'.end_date]
    /\ \E ok \in [1..4 -> BOOLEAN] :
          /\ projection' = ExampleCreditAnalysis(config, analyzer', ok, acct)
          /\ api_calls' = api_calls + projection'.calls
    /\ UNCHANGED <<config, now, acct, costs, env, pc, slack_integration,
                   api_log, report, console, chat, posts, delivery, result,
                   exit_code, message>>

\* project_credit_exhaustion(): the shared config is set to one month
\* first and left that way
CallProjectCreditExhaustion ==
    /\ projection = NoProjection
    /\ config' = [config EXCEPT !.period_type = "m", !.period_count = 1]
    /\ period' = GetBillingPeriod(config', now)
    /\ analyzer' = [constructed |-> TRUE,
                    start_date |-> period'.start_date,
                    end_date |-> period'.end_date]
    /\ \E ok \in [1..2 -> BOOLEAN] :
          /\ projection' = ProjectCreditExhaustion(config', analyzer', ok, acct)
          /\ api_calls' = api_calls + projection'.calls
    /\ UNCHANGED <<now, acct, costs, env, pc, slack_integration, api_log,
                   report, console, chat, posts, delivery, result, exit_code,
                   message>>

NextScripts ==
    \/ CallExampleBasicUsage
    \/ CallExampleCreditAnalysis
    \/ CallProjectCreditExhaustion

SpecScripts == InitScripts /\ [][NextScripts]_vars

(***************************************************************************)
(* The analyses of credit_analyzer.py and the examples of example_usage.py *)
(* that build an analyzer of their own, called in any order against one    *)
(* account and the one shared config. costs holds what the last of them    *)
(* computed.                                                               *)
(***************************************************************************)

\* the accounts of RunAccts, and one whose usage of the period is 0.005
\* with a credit of 0.005
AnalysisAccts ==
    RunAccts \cup
    {[DefaultAcct EXCEPT !.record_types =
        << << [key |-> "Usage", amount |-> 5],
              [key |-> "Credit", amount |-> 0 - 5] >> >>]}

InitAnalyses ==
    /\ config \in ScriptConfigs
    /\ now \in {[day |-> 1000, tod |-> 1]}
    /\ period = NoPeriod
    /\ acct \in AnalysisAccts
    /\ costs = NoCosts
    /\ env = [aws_credentials |-> TRUE, slack_webhook_url |-> FALSE]
    /\ RunIdle

\* what an analysis leaves alone besides the config
analysisFrame == <<now, acct, env, pc, slack_integration, console, chat,
                   posts, delivery, projection, result, exit_code, message>>

\* analyze_current_month(): the shared config is set to one month first
\* and left that way
CallAnalyzeCurrentMonth ==
    /\ api_calls < MaxApiCalls
    /\ config' = [config EXCEPT !.period_type = "m", !.period_count = 1]
    /\ period' = GetBillingPeriod(config', now)
    /\ analyzer' = [constructed |-> TRUE,
                    start_date |-> period'.start_date,
                    end_date |-> period'.end_date]
    /\ \E ok \in [1..4 -> BOOLEAN] :
          costs' = [method |-> "analyze_current_month", failed |-> FALSE,
                    result |-> AnalyzeCurrentMonth(ok, acct)]
    /\ api_calls' = api_calls + costs'.result.calls
    /\ UNCHANGED <<api_log, report, analysisFrame>>

\* analyze_last_three_months(): the shared config is set to three months
\* first and left that way
CallAnalyzeLastThreeMonths ==
    /\ api_calls < MaxApiCalls
    /\ config' = [config EXCEPT !.period_type = "m", !.period_count = 3]
    /\ period' = GetBillingPeriod(config', now)
    /\ analyzer' = [constructed |-> TRUE,
                    start_date |-> period'.start_date,
                    end_date |-> period'.end_date]
    /\ \E ok \in [1..3 -> BOOLEAN] :
          costs' = [method |-> "analyze_last_three_months", failed |-> FALSE,
                    result |-> AnalyzeLastThreeMonths(config', ok, acct)]
    /\ api_calls' = api_calls + costs'.result.calls
    /\ UNCHANGED <<api_log, report, analysisFrame>>

\* analyze_lifetime_credits()
CallAnalyzeLifetimeCredits ==
    /\ api_calls < MaxApiCalls
    /\ period' = GetBillingPeriod(config, now)
    /\ analyzer' = [constructed |-> TRUE,
                    start_date |-> period'.start_date,
                    end_date |-> period'.end_date]
    /\ \E ok \in [1..2 -> BOOLEAN] :
          LET r == AnalyzeLifetimeCredits(config, ok, acct)
          IN costs' = [method |-> "analyze_lifetime_credits",
                       failed |-> r.raised, result |-> r]
    /\ api_calls' = api_calls + costs'.result.calls
    /\ UNCHANGED <<config, api_log, report, analysisFrame>>

\* show_optimization_suggestions()
CallShowOptimizationSuggestions ==
    /\ api_calls < MaxApiCalls
    /\ period' = GetBillingPeriod(config, now)
    /\ analyzer' = [constructed |-> TRUE,
                    start_date |-> period'.start_date,
                    end_date |-> period'.end_date]
    /\ \E ok \in BOOLEAN :
          LET r == ShowOptimizationSuggestions(config, ok, acct)
          IN costs' = [method |-> "show_optimization_suggestions",
                       failed |-> r.raised, result |-> r]
    /\ api_calls' = api_calls + costs'.result.calls
    /\ UNCHANGED <<config, api_log, report, analysisFrame>>

\* example_service_analysis()
CallExampleServiceAnalysis ==
    /\ api_calls < MaxApiCalls
    /\ period' = GetBillingPeriod(config, now)
    /\ analyzer' = [constructed |-> TRUE,
                    start_date |-> period'.start_date,
                    end_date |-> period'.end_date]
    /\ \E ok \in BOOLEAN :
          costs' = [method |-> "example_service_analysis", failed |-> FALSE,
                    result |-> ExampleShares("service_share",
                                  GetCostByService(ok, acct.services, config))]
    /\ api_calls' = api_calls + costs'.result.calls
    /\ UNCHANGED <<config, api_log, report, analysisFrame>>

\* example_usage_type_analysis()
CallExampleUsageTypeAnalysis ==
    /\ api_calls < MaxApiCalls
    /\ period' = GetBillingPeriod(config, now)
    /\ analyzer' = [constructed |-> TRUE,
                    start_date |-> period'.start_date,
                    end_date |-> period'.end_date]
    /\ \E ok \in BOOLEAN :
          costs' = [method |-> "example_usage_type_analysis", failed |-> FALSE,
                    result |-> ExampleShares("usage_type_share",
                                  GetCostByUsageType(ok, acct.usage_types, config))]
    /\ api_calls' = api_calls + costs'.result.calls
    /\ UNCHANGED <<config, api_log, report, analysisFrame>>

\* example_custom_period(): the shared config is set to thirty days, the
\* report is generated, and the finally clause puts the saved period type
\* and count back, also when generate_billing_report raised
CallExampleCustomPeriod ==
    /\ api_calls < MaxApiCalls
    /\ period' = GetBillingPeriod(
                    [config EXCEPT !.period_type = "d", !.period_count = 30], now)
    /\ analyzer' = [constructed |-> TRUE,
                    start_date |-> period'.start_date,
                    end_date |-> period'.end_date]
    /\ \E ok \in ScriptOks :
          LET g == GenerateBillingReport(
                      [config EXCEPT !.period_type = "d", !.period_count = 30],
                      analyzer', now, ok, acct)
          IN /\ api_log' = SubSeq(ok, 1, g.calls)
             /\ report' = g.report
    /\ costs' = [method |-> "example_custom_period",
                 failed |-> report' = EmptyDict,
                 result |-> [raised |-> report' = EmptyDict,
                             calls |-> Len(api_log'),
                             percentages |-> {}]]
    /\ api_calls' = api_calls + costs'.result.calls
    /\ config' = config
    /\ UNCHANGED analysisFrame

\* example_monthly_credit_trend(): the same with three months, followed by
\* a get_cost_by_service of its own when the report was generated
CallExampleMonthlyCreditTrend ==
    /\ api_calls < MaxApiCalls
    /\ period' = GetBillingPeriod(
                    [config EXCEPT !.period_type = "m", !.period_count = 3], now)
    /\ analyzer' = [constructed |-> TRUE,
                    start_date |-> period'.start_date,
                    end_date |-> period'.end_date]
    /\ \E ok \in ScriptOks :
          LET g == GenerateBillingReport(
                      [config EXCEPT !.period_type = "m", !.period_count = 3],
                      analyzer', now, ok, acct)
          IN /\ api_log' = SubSeq(ok, 1, g.calls)
             /\ report' = g.report
    /\ costs' = [method |-> "example_monthly_credit_trend",
                 failed |-> report' = EmptyDict,
                 result |-> IF report' = EmptyDict
                            THEN [raised |-> TRUE, calls |-> Len(api_log'),
                                  percentages |-> {}]
                            ELSE [calls |-> Len(api_log') + 1]
                                 @@ ExampleMonthlyCreditTrend(report')]
    /\ api_calls' = api_calls + costs'.result.calls
    /\ config' = config
    /\ UNCHANGED analysisFrame

NextAnalyses ==
    \/ CallAnalyzeCurrentMonth
    \/ CallAnalyzeLastThreeMonths
    \/ CallAnalyzeLifetimeCredits
    \/ CallProjectCreditExhaustion
    \/ CallShowOptimizationSuggestions
    \/ CallExampleServiceAnalysis
    \/ CallExampleUsageTypeAnalysis
    \/ CallExampleCustomPeriod
    \/ CallExampleMonthlyCreditTrend

SpecAnalyses == InitAnalyses /\ [][NextAnalyses]_vars

\* C23: an analysis or example operation leaves the period type and the
\* period count of the shared config as they were before it was called.
C23_ConfigLeftAlone ==
    [][(costs' # costs \/ projection' # projection) =>
          (/\ config'.period_type = config.period_type
           /\ config'.period_count = config.period_count)]_vars

\* C26: no percentage is computed by dividing by a total below 0.01.
C26_PercentagesGuarded ==
    costs.method # "none" =>
        \A p \in costs.result.percentages : p.den >= 10

(***************************************************************************)
(* The two renderers on their own: a caller hands a report, whole or       *)
(* partial, to _display_report_console and to format_billing_message.      *)
(***************************************************************************)

\* Config() with the credit attributes that aws_billing.py reads
CreditConfig ==
    [DefaultConfig EXCEPT !.has_total_credits = TRUE,
                          !.total_credits = 5000000,
                          !.has_credit_expiration = TRUE,
                          !.credit_expiration = "2026-12-31"]

\* the report of a month in which every request was answered, and the one
\* in which every request failed (every amount 0, every collection empty)
WholeReports ==
    LET p == GetBillingPeriod(CreditConfig, [day |-> 1000, tod |-> 1])
        an == [constructed |-> TRUE, start_date |-> p.start_date,
               end_date |-> p.end_date]
    IN {GenerateBillingReport(CreditConfig, an, [day |-> 1000, tod |-> 1],
                              [i \in 1..9 |-> b], DefaultAcct).report :
           b \in BOOLEAN}

\* the keys of a report that a renderer reads
RenderedKeys == {"period", "costs", "credits", "currency", "total_cost", "net_cost"}

\* a report with any subset of the rendered fields missing, or with any of
\* its nested dicts empty
PartialReports ==
    {[k \in (DOMAIN r \ missing) |-> r[k]] :
        r \in WholeReports, missing \in SUBSET RenderedKeys}
    \cup
    {[k \in DOMAIN r |-> IF k \in empty
                         THEN (IF k = "credits" THEN PyDict(EmptyDict)
                               ELSE EmptyDict)
                         ELSE r[k]] :
        r \in WholeReports, empty \in SUBSET {"period", "costs", "credits"}}
    \cup {EmptyDict}

InitRender ==
    /\ config \in {DefaultConfig, CreditConfig}
    /\ now = [day |-> 1000, tod |-> 1]
    /\ period = NoPeriod
    /\ acct = DefaultAcct
    /\ costs = NoCosts
    /\ env \in [aws_credentials : BOOLEAN, slack_webhook_url : {TRUE}]
    /\ pc = "start"
    /\ analyzer = NoAnalyzer
    /\ slack_integration = TRUE
    /\ api_log = <<>>
    /\ api_calls = 0
    /\ report \in PartialReports
    /\ console = NoConsole
    /\ chat = NoChat
    /\ posts = <<>>
    /\ delivery = NoDelivery
    /\ projection = NoProjection
    /\ result = EmptyDict
    /\ exit_code = 0 - 1
    /\ message = "none"

\* billing_manager._display_report_console(report)
CallDisplayReportConsole ==
    /\ api_calls < MaxApiCalls
    /\ \E ok \in [1..2 -> BOOLEAN] :
          console' = DisplayReportConsole(report, config, ok, acct)
    /\ api_calls' = api_calls + console'.calls
    /\ UNCHANGED <<cfgVars, env, pc, analyzer, slack_integration, api_log,
                   report, chat, posts, delivery, projection, result,
                   exit_code, message>>

\* slack_integration.format_billing_message(report): delivery records
\* whether it returned a text or raised
CallFormatBillingMessage ==
    /\ api_calls < MaxApiCalls
    /\ \E ok \in [1..2 -> BOOLEAN] :
          LET m == FormatBillingMessage(report, config, env, now, ok, acct)
          IN /\ chat' = m.message
             /\ delivery' = [method |-> "format_billing_message",
                             returned |-> ~m.raised,
                             raised |-> m.raised,
                             seq |-> delivery.seq]
             /\ api_calls' = api_calls + m.calls
    /\ UNCHANGED <<cfgVars, env, pc, analyzer, slack_integration, api_log,
                   report, console, posts, projection, result, exit_code,
                   message>>

NextRender == CallDisplayReportConsole \/ CallFormatBillingMessage

SpecRender == InitRender /\ [][NextRender]_vars

\* C25: handed any partial report, _display_report_console prints its text
\* and format_billing_message returns its text; neither raises.
C25_RenderersTolerant ==
    /\ console # NoConsole => console.printed
    /\ delivery.method = "format_billing_message" =>
          (~delivery.raised /\ chat # NoChat)

(***************************************************************************)
(* Properties of report generation and of the run.                         *)
(***************************************************************************)

\* generate_billing_report has been called in this run
Generated == Len(api_log) > 0

\* a report has been assembled and is held
Assembled == DOMAIN report # {}

\* C1: when a Cost Explorer call of a query method fails the method
\* returns its zero or empty value, and generate_billing_report still
\* returns a report in which each metric carries the value of its own query
\* (zero or empty exactly when that query failed).
C1_FailureIsolated ==
    Generated =>
        /\ Assembled
        /\ report.total_cost =
              (IF api_log[1] THEN SumOfKey(acct.record_types, "Usage") ELSE 0)
        /\ report.credits.value =
              (IF api_log[2] THEN SumOfKey(acct.record_types, "Credit") ELSE 0)
        /\ report.net_cost =
              (IF api_log[3] THEN SumOfKey(acct.record_types, "Usage") ELSE 0)
              + (IF api_log[4] THEN SumOfKey(acct.record_types, "Credit") ELSE 0)
        /\ api_log[7] =>
              \A k \in KeysIn(acct.services) :
                 SumOfKey(acct.services, k) >= config.min_cost_threshold
                    => /\ k \in DOMAIN report.costs_by_service
                       /\ report.costs_by_service[k] = SumOfKey(acct.services, k)
        /\ ~api_log[7] => report.costs_by_service = EmptyDict
        /\ api_log[8] =>
              \A k \in KeysIn(acct.usage_types) :
                 SumOfKey(acct.usage_types, k) >= config.min_cost_threshold
                    => /\ k \in DOMAIN report.costs_by_usage_type
                       /\ report.costs_by_usage_type[k] = SumOfKey(acct.usage_types, k)
        /\ ~api_log[8] => report.costs_by_usage_type = EmptyDict
        /\ Len(report.daily_costs) = (IF api_log[9] THEN Len(acct.daily) ELSE 0)

\* C2: with credentials present, the default Config() and every external
\* query succeeding, run_billing_analysis displays the report and returns
\* a non-empty report.
C2_DefaultRunReturnsReport ==
    (/\ pc \in {"analysed", "done"}
     /\ env.aws_credentials
     /\ config = DefaultConfig
     /\ \A i \in DOMAIN api_log : api_log[i])
    => /\ console.printed
       /\ DOMAIN result # {}

\* C3: in every assembled report the remaining credit equals
\* max(0, total_available - used_lifetime) of that same report and is never
\* negative.
C3_RemainingClamped ==
    Assembled =>
        /\ report.credits.type = "dict"
        /\ report.credits.remaining =
              Max0(report.credits.total_available - report.credits.used_lifetime)
        /\ report.credits.remaining >= 0

\* C4: in every assembled report the stored net cost equals the stored
\* usage cost plus the stored signed period credits, so net cost <= usage
\* cost whenever the credits are <= 0.
C4_NetIsUsagePlusCredits ==
    Assembled =>
        /\ report.net_cost = report.total_cost + report.credits.value
        /\ report.costs.net_cost_period =
              report.costs.usage_cost_period + report.credits.value
        /\ report.credits.value <= 0 => report.net_cost <= report.total_cost

\* C5: the status printed is decided by the remaining credit printed
\* alone, with fixed thresholds: above 1000 HEALTHY, above 500 up to 1000
\* MONITOR, above 0 up to 500 CRITICAL, 0 or less EXHAUSTED; a total of 5000
\* with 4600 used leaves 400 and is CRITICAL.
C5_StatusThresholds ==
    console.printed =>
        LET r == console.remaining_credits IN
        /\ r > 1000000 => console.status = "HEALTHY"
        /\ (500000 < r /\ r <= 1000000) => console.status = "MONITOR"
        /\ (0 < r /\ r <= 500000) => console.status = "CRITICAL"
        /\ r <= 0 => console.status = "EXHAUSTED"
        /\ (/\ config.has_total_credits
            /\ config.total_credits = 5000000
            /\ Len(console.api_ok) = 2
            /\ console.api_ok[2]
            /\ SumOfKey(acct.lifetime, "Credit") = 0 - 4600000)
           => (r = 400000 /\ console.status = "CRITICAL")

\* a remaining credit of exactly 1000 has been printed with its status
C5_Witness ==
    /\ console.printed
    /\ console.remaining_credits = 1000000
    /\ console.status = "MONITOR"

\* C13: once a report has been generated, run_billing_analysis
\* returns that same report and nothing is raised, whether the webhook POST
\* is answered with 200, with another status, or raises; and the process
\* then exits with status 0.
C13_NotificationIndependent ==
    Assembled =>
        /\ pc # "crashed"
        /\ pc \in {"analysed", "done"} => result = report
        /\ pc = "done" => exit_code = 0

\* a run whose webhook POST raised has returned the report and ended
C13_Witness ==
    /\ Assembled
    /\ pc = "done"
    /\ posts = <<"exception">>
    /\ ~delivery.returned
    /\ result = report
    /\ exit_code = 0

\* C14: no Cost Explorer request and no webhook POST is ever made in a run
\* whose credentials are missing or whose period kind or count is invalid.
C14_PreflightAborts ==
    (\/ ~env.aws_credentials
     \/ config.period_type \notin {"d", "m"}
     \/ config.period_count < 1)
    => /\ api_calls = 0
       /\ posts = <<>>

\* C15: the process exits with status 0 only when a report was generated
\* and printed; when a credential is missing or the configuration is
\* rejected it exits with a non-zero status.
C15_ExitSemantics ==
    /\ exit_code = 0 => (Assembled /\ console.printed)
    /\ (pc \in {"done", "crashed"}
          /\ (~env.aws_credentials \/ period.status = "ValueError"))
       => exit_code > 0

\* C16: printing the console text and formatting the chat text make no
\* Cost Explorer request: the number of requests made is the same before
\* and after each of the two.
C16_RenderingIsPure ==
    [][(pc \in {"generated", "displayed"}) => (api_calls' = api_calls)]_vars

\* C17: the report stores the net cost as get_net_cost computed it, usage
\* cost plus signed credits, negative or not, and the console and the chat
\* text show max(0, net cost): usage 200.00 with credits -250.00 is stored
\* as -50.00 and shown as 0.00; usage 200.00 with credits -150.00 is stored
\* and shown as 50.00.
C17_NetFloorAtDisplayOnly ==
    Assembled =>
        LET usage == SumOfKey(acct.record_types, "Usage")
            credits == SumOfKey(acct.record_types, "Credit")
            stored == report.costs.net_cost_period
        IN
        /\ report.net_cost = stored
        /\ (api_log[3] /\ api_log[4]) => stored = FAdd(usage, credits)
        /\ console.printed => console.net_cost = Max0(stored)
        /\ chat.formatted => chat.net_cost = Max0(stored)
        /\ (api_log[3] /\ api_log[4] /\ usage = 200000 /\ credits = 0 - 250000)
              => /\ stored = 0 - 50000
                 /\ console.printed => console.net_cost = 0
                 /\ chat.formatted => chat.net_cost = 0
        /\ (api_log[3] /\ api_log[4] /\ usage = 200000 /\ credits = 0 - 150000)
              => /\ stored = 50000
                 /\ console.printed => console.net_cost = 50000
                 /\ chat.formatted => chat.net_cost = 50000

\* a report holding a net cost of -50.00 has been printed and formatted for
\* the chat with a net cost of 0.00
C17_Witness ==
    /\ Assembled
    /\ report.net_cost = 0 - 50000
    /\ console.printed
    /\ console.net_cost = 0
    /\ chat.formatted
    /\ chat.net_cost = 0

\* C19: in every report generate_billing_report returns, the 'credits'
\* entry is the composite holding total_available, used_lifetime, remaining
\* and applied_this_period, and the report also holds the period, the
\* costs, the three aggregations, the currency and the generation time.
C19_ReportExposesCreditState ==
    Assembled =>
        /\ report.credits.type = "dict"
        /\ {"total_available", "used_lifetime", "remaining", "applied_this_period"}
              \subseteq DOMAIN report.credits
        /\ {"period", "costs", "costs_by_service", "costs_by_usage_type",
            "daily_costs", "currency", "generated_at"} \subseteq DOMAIN report

C29_ShownCreditsAreReported ==
    LET Stored(k) == Get(report["credits"], k, 0 - 1)
    IN /\ console.printed =>
             /\ console.total_credits = config.total_credits
             /\ console.total_credits = Stored("total_available")
             /\ console.used_lifetime = Stored("used_lifetime")
             /\ console.remaining_credits = Stored("remaining")
       /\ chat.formatted =>
             /\ chat.lifetime_credits_used = Stored("used_lifetime")
             /\ chat.remaining_credits = Stored("remaining")

\* C30: when the lifetime query fails the console shows 0 credits used; when
\* the query inside get_remaining_credits fails it shows the whole
\* configured total as remaining, with status HEALTHY when the total is
\* over 1000; when both fail the figures and the status are those shown
\* for an account whose lifetime response holds no credit at all.
C30_FailedLifetimeLooksUnused ==
    console.printed =>
        /\ ~console.api_ok[1] => console.used_lifetime = 0
        /\ (Len(console.api_ok) = 2 /\ ~console.api_ok[2]) =>
              /\ console.remaining_credits = config.total_credits
              /\ config.total_credits > 1000000 => console.status = "HEALTHY"
        /\ (Len(console.api_ok) = 2 /\ ~console.api_ok[1] /\ ~console.api_ok[2]) =>
              LET unused == DisplayReportConsole(report, config,
                                [i \in 1..2 |-> TRUE],
                                [acct EXCEPT !.lifetime = <<>>])
              IN /\ console.used_lifetime = unused.used_lifetime
                 /\ console.remaining_credits = unused.remaining_credits
                 /\ console.status = unused.status

\* both lifetime queries of the display failed against an account that has
\* used credits, and the console shows the 5000.00 as remaining, HEALTHY
C30_Witness ==
    /\ console.printed
    /\ console.api_ok = <<FALSE, FALSE>>
    /\ GetCreditsUsedLifetime(TRUE, acct.lifetime) > 0
    /\ console.used_lifetime = 0
    /\ console.remaining_credits = 5000000
    /\ console.status = "HEALTHY"

(***************************************************************************)
(* Properties of the burn-rate analyses.                                   *)
(***************************************************************************)

C20_BurnRateFormula ==
    /\ (console.printed /\ console.burn_block) =>
          console.burn_num
             * (report.period.period_count
                  * (IF report.period.period_type = "m" THEN 30 ELSE 1))
          = console.credits_applied * 30 * console.burn_den
    /\ (projection.site # "none" /\ projection.computed
          /\ projection.days_in_period > 0
          /\ \A i \in DOMAIN projection.api_ok : projection.api_ok[i]) =>
          /\ projection.days_in_period =
                projection.period_count
                   * (IF projection.period_type = "m" THEN 30 ELSE 1)
          /\ projection.rate_num * projection.days_in_period
             = Abs(SumOfKey(acct.record_types, "Credit")) * 30 * projection.rate_den
    /\ (/\ console.printed
        /\ console.burn_block
        /\ projection.site = "example_credit_analysis"
        /\ projection.computed
        /\ report.period.period_type = projection.period_type
        /\ report.period.period_count = projection.period_count
        /\ console.credits_applied = projection.credits_applied) =>
          console.burn_num * projection.rate_den
          = projection.rate_num * console.burn_den

====
